---- MODULE Spec2Model ----
(***************************************************************************)
(* Model of the resume analyzer: the upload endpoint of app.py (Flask,      *)
(* threaded) and the analysis tools of resume_analyzer_mcp.py, both over    *)
(* one MongoDB collection.                                                  *)
(*                                                                          *)
(* Strings are TLA+ strings; str.lower, substring containment and the       *)
(* other string functions are computed character by character.  Floats are  *)
(* exact rationals [num, den] with den > 0: the only non-integer values of  *)
(* the program are matching/len*20 and the values derived from it.          *)
(***************************************************************************)
EXTENDS Integers, Sequences, FiniteSets, TLC

VARIABLES
    resume,            \* scoring harness: the record handed to calculate_resume_score
    job_requirements,  \* scoring harness: the job_requirements argument
    score_data,        \* scoring harness: the returned dict, or NoResult
    collection,        \* the MongoDB collection candidates: documents in insertion order
    next_id,           \* the next ObjectId the driver generates
    uploads,           \* the uploads directory: filename -> file or NoFile
    hash_seed,         \* the hash seed of the Flask process
    pc,                \* upload_resume, per request: where the handler is
    request,           \* upload_resume, per request: what the client sent
    data,              \* upload_resume, per request: the local data
    result,            \* upload_resume, per request: result.inserted_id, 0 before the insert
    error,             \* upload_resume, per request: the exception being handled
    response,          \* upload_resume, per request: the JSON response
    reply,             \* the last reply of a read-only operation (a tool, or /resumes)
    stats_total        \* get_database_stats: total_resumes while the tool runs, else NotRunning

score_vars == <<resume, job_requirements, score_data>>
store_vars == <<collection, next_id>>
upload_vars == <<uploads, hash_seed, pc, request, data, result, error, response>>
vars == <<resume, job_requirements, score_data, collection, next_id, uploads,
          hash_seed, pc, request, data, result, error, response, reply, stats_total>>

-----------------------------------------------------------------------------
(* Bounds *)

MaxSkills == 11
MaxExperience == 6
MaxEducation == 3
\* the number of upload requests
MaxUploads == 2

-----------------------------------------------------------------------------
(* Strings *)

Min(a, b) == IF a <= b THEN a ELSE b

\* str.lower() on one character (ASCII letters; other characters unchanged)
LowerChar(c) ==
    CASE c = "A" -> "a" [] c = "B" -> "b" [] c = "C" -> "c" [] c = "D" -> "d"
      [] c = "E" -> "e" [] c = "F" -> "f" [] c = "G" -> "g" [] c = "H" -> "h"
      [] c = "I" -> "i" [] c = "J" -> "j" [] c = "K" -> "k" [] c = "L" -> "l"
      [] c = "M" -> "m" [] c = "N" -> "n" [] c = "O" -> "o" [] c = "P" -> "p"
      [] c = "Q" -> "q" [] c = "R" -> "r" [] c = "S" -> "s" [] c = "T" -> "t"
      [] c = "U" -> "u" [] c = "V" -> "v" [] c = "W" -> "w" [] c = "X" -> "x"
      [] c = "Y" -> "y" [] c = "Z" -> "z" [] OTHER -> c

\* str.lower(), character by character (by halves, to keep the recursion shallow)
RECURSIVE Lower(_)
Lower(s) ==
    IF Len(s) = 0 THEN ""
    ELSE IF Len(s) = 1 THEN LowerChar(s)
    ELSE Lower(SubSeq(s, 1, Len(s) \div 2)) \o Lower(SubSeq(s, Len(s) \div 2 + 1, Len(s)))

\* Python's `sub in s`
Contains(sub, s) ==
    \E i \in 1..(Len(s) - Len(sub) + 1) : SubSeq(s, i, i + Len(sub) - 1) = sub

RECURSIVE Repeat(_, _)
Repeat(c, n) ==
    IF n = 0 THEN ""
    ELSE IF n = 1 THEN c
    ELSE Repeat(c, n \div 2) \o Repeat(c, n - n \div 2)

-----------------------------------------------------------------------------
(* Records (dicts) *)

Fields == {"name", "email", "phone", "skills", "education", "experience", "summary"}

\* dict.get(key, default)
Get(d, key, default) == IF key \in DOMAIN d THEN d[key] ELSE default

\* The skills vocabulary of extract_info, in list order
sample_skills ==
    << "Python", "Java", "SQL", "Excel", "C++", "Machine Learning",
       "Data Science", "TensorFlow", "Pandas", "Numpy", "Power BI",
       "React", "Node.js", "JavaScript", "HTML", "CSS", "MongoDB",
       "Flask", "Django", "AWS", "Docker", "Kubernetes", "Git" >>

-----------------------------------------------------------------------------
(* More of str and re, as extract_info uses them *)

Char(s, i) == SubSeq(s, i, i)

LowerLetters ==
    { "a", "b", "c", "d", "e", "f", "g", "h", "i", "j", "k", "l", "m",
      "n", "o", "p", "q", "r", "s", "t", "u", "v", "w", "x", "y", "z" }
Digits == { "0", "1", "2", "3", "4", "5", "6", "7", "8", "9" }
Whitespace == { " ", "\n", "\t" }

\* \w and the class [\w\.-] of the email pattern
IsWordChar(c) == LowerChar(c) \in LowerLetters \/ c \in Digits \/ c = "_"
IsEmailChar(c) == IsWordChar(c) \/ c = "." \/ c = "-"

\* \b before position i (1..Len(s)+1): exactly one side is a word character
WordBoundary(s, i) ==
    LET before == i > 1 /\ IsWordChar(Char(s, i - 1))
        after  == i <= Len(s) /\ IsWordChar(Char(s, i))
    IN  before # after

\* str.strip()
RECURSIVE LStrip(_)
LStrip(s) ==
    IF Len(s) > 0 /\ Char(s, 1) \in Whitespace THEN LStrip(SubSeq(s, 2, Len(s))) ELSE s
RECURSIVE RStrip(_)
RStrip(s) ==
    IF Len(s) > 0 /\ Char(s, Len(s)) \in Whitespace THEN RStrip(SubSeq(s, 1, Len(s) - 1)) ELSE s
Strip(s) == RStrip(LStrip(s))

\* the first index >= from at which sep starts in s, or 0
Find(sep, s, from) ==
    LET hits == { i \in from..(Len(s) - Len(sep) + 1) : SubSeq(s, i, i + Len(sep) - 1) = sep }
    IN  IF hits = {} THEN 0 ELSE CHOOSE i \in hits : \A j \in hits : i <= j

\* str.split(sep): always at least one piece
RECURSIVE Split(_, _)
Split(s, sep) ==
    LET i == Find(sep, s, 1)
    IN  IF i = 0 THEN << s >>
        ELSE << SubSeq(s, 1, i - 1) >> \o Split(SubSeq(s, i + Len(sep), Len(s)), sep)

\* str.splitlines() for "\n" line ends: no empty last line after a final "\n"
RECURSIVE SplitLines(_)
SplitLines(s) ==
    LET i == Find("\n", s, 1)
    IN  IF Len(s) = 0 THEN << >>
        ELSE IF i = 0 THEN << s >>
        ELSE << SubSeq(s, 1, i - 1) >> \o SplitLines(SubSeq(s, i + 1, Len(s)))

\* re.search(r"\b\d{10}\b", text): the leftmost match, or ""
PhoneMatch(text) ==
    LET starts == { i \in 1..(Len(text) - 9) :
                      /\ \A k \in i..(i + 9) : Char(text, k) \in Digits
                      /\ WordBoundary(text, i)
                      /\ WordBoundary(text, i + 10) }
    IN  IF starts = {} THEN ""
        ELSE LET i == CHOOSE i \in starts : \A j \in starts : i <= j
             IN  SubSeq(text, i, i + 9)

\* The ends e of a match of [\w\.-]+@[\w\.-]+\.\w{2,4}\b that starts at i, each
\* with the position d of the dot before the last part
EmailEnds(text, i) ==
    LET at == Find("@", text, i)
    IN  IF at <= i \/ \E k \in i..(at - 1) : ~IsEmailChar(Char(text, k)) THEN {}
        ELSE { de \in ((at + 2)..Len(text)) \X ((at + 4)..Len(text)) :
                 LET d == de[1]
                     e == de[2]
                 IN  /\ Char(text, d) = "."
                     /\ \A k \in (at + 1)..(d - 1) : IsEmailChar(Char(text, k))
                     /\ e - d \in 2..4
                     /\ \A k \in (d + 1)..e : IsWordChar(Char(text, k))
                     /\ WordBoundary(text, e + 1) }

\* re.search(r"\b[\w\.-]+@[\w\.-]+\.\w{2,4}\b", text): leftmost start, then the
\* greedy choice: the longest domain, then the longest last part
EmailMatch(text) ==
    LET starts == { i \in 1..Len(text) :
                      /\ WordBoundary(text, i)
                      /\ IsEmailChar(Char(text, i))
                      /\ EmailEnds(text, i) # {} }
    IN  IF starts = {} THEN ""
        ELSE LET i  == CHOOSE i \in starts : \A j \in starts : i <= j
                 es == EmailEnds(text, i)
                 de == CHOOSE x \in es :
                          \A y \in es : y[1] < x[1] \/ (y[1] = x[1] /\ y[2] <= x[2])
             IN  SubSeq(text, i, de[2])

-----------------------------------------------------------------------------
(* extract_info *)

education_keywords ==
    << "B.Tech", "M.Tech", "Bachelor", "Master", "PhD", "BSc", "MSc", "MBA", "High School" >>

experience_keywords ==
    << "experience", "worked", "project", "internship", "job", "role", "position" >>

\* the first PERSON entity of doc.ents
NameOf(ents) ==
    LET persons == { i \in 1..Len(ents) : ents[i].label = "PERSON" /\ ents[i].text # "" }
    IN  IF persons = {} THEN ""
        ELSE ents[CHOOSE i \in persons : \A j \in persons : i <= j].text

\* skills, in vocabulary order
SkillsIn(text) ==
    LET InText(skill) == Contains(Lower(skill), Lower(text))
    IN  SelectSeq(sample_skills, InText)

\* education: one append per (line, keyword) pair that matches
RECURSIVE EducationIn(_)
EducationIn(lines) ==
    IF lines = << >> THEN << >>
    ELSE LET line == Head(lines)
             Hit(keyword) == Contains(Lower(keyword), Lower(line))
         IN  [i \in 1..Len(SelectSeq(education_keywords, Hit)) |-> Strip(line)]
               \o EducationIn(Tail(lines))

\* mutant: the keywords are looked for in the line as written
ExperienceInAsWritten(lines) ==
    LET Hit(line) == \E k \in 1..Len(experience_keywords) :
                        Contains(experience_keywords[k], line)
        hits == SelectSeq(lines, Hit)
    IN  [i \in 1..Len(hits) |-> Strip(hits[i])]

\* experience: the keywords are compared with the lowered line as they stand
ExperienceIn(lines) ==
    LET Hit(line) == \E k \in 1..Len(experience_keywords) :
                        Contains(experience_keywords[k], Lower(line))
        hits == SelectSeq(lines, Hit)
    IN  [i \in 1..Len(hits) |-> Strip(hits[i])]

SummaryIn(text) ==
    LET Long(p) == Len(Strip(p)) > 50
        paragraphs == SelectSeq(Split(text, "\n\n"), Long)
    IN  IF paragraphs = << >> THEN "" ELSE Strip(paragraphs[1])

\* list(set(l)): the elements of l once each; the iteration order of a set of
\* str depends on the process's hash seed.  Two seeds are modelled: one
\* iterating in first-occurrence order, one in the reverse of it.
RECURSIVE Dedup(_)
Dedup(l) ==
    IF l = << >> THEN << >>
    ELSE LET rest == Dedup(SubSeq(l, 1, Len(l) - 1))
             last == l[Len(l)]
         IN  IF \E i \in 1..Len(rest) : rest[i] = last THEN rest ELSE Append(rest, last)

Reverse(l) == [i \in 1..Len(l) |-> l[Len(l) + 1 - i]]

ListOfSet(l, seed) == IF seed = 0 THEN Dedup(l) ELSE Reverse(Dedup(l))

\* mutant: every experience line is kept
ExtractInfoUncapped(text, ents, seed) ==
    [ name       |-> NameOf(ents),
      email      |-> EmailMatch(text),
      phone      |-> PhoneMatch(text),
      skills     |-> ListOfSet(SkillsIn(text), seed),
      education  |-> ListOfSet(EducationIn(SplitLines(text)), seed),
      experience |-> ExperienceIn(SplitLines(text)),
      summary    |-> SummaryIn(text) ]

extract_info(text, ents, seed) ==
    [ name       |-> NameOf(ents),
      email      |-> EmailMatch(text),
      phone      |-> PhoneMatch(text),
      skills     |-> ListOfSet(SkillsIn(text), seed),
      education  |-> ListOfSet(EducationIn(SplitLines(text)), seed),
      experience |-> SubSeq(ExperienceIn(SplitLines(text)), 1,
                            Min(5, Len(ExperienceIn(SplitLines(text))))),
      summary    |-> SummaryIn(text) ]

-----------------------------------------------------------------------------
(* calculate_resume_score *)

\* A rational number num/den, den > 0
Rat(n, d) == [num |-> n, den |-> d]
RatLe(a, b) == a.num * b.den <= b.num * a.den
RatLt(a, b) == a.num * b.den < b.num * a.den
RatEq(a, b) == a.num * b.den = b.num * a.den

\* job_requirements is [given, list]: given = FALSE is the default None
NoRequirements == [given |-> FALSE, list |-> <<>>]
Requirements(l) == [given |-> TRUE, list |-> l]
Truthy(jr) == jr.given /\ jr.list # <<>>

\* the inner loops: one match per requirement, at the first skill containing it
RequirementMatches(req, skills) ==
    \E j \in 1..Len(skills) : Contains(Lower(req), Lower(skills[j]))

\* mutant: the inner loop without its break, counting every matching skill
MatchingSkillsNoBreak(reqs, skills) ==
    Cardinality({p \in (1..Len(reqs)) \X (1..Len(skills)) :
                    Contains(Lower(reqs[p[1]]), Lower(skills[p[2]]))})

MatchingSkills(reqs, skills) ==
    Cardinality({i \in 1..Len(reqs) : RequirementMatches(reqs[i], skills)})

\* mutant: the skills component without its cap of 30
SkillsScoreUncapped(r) == Len(Get(r, "skills", <<>>)) * 3

SkillsScore(r) == Min(Len(Get(r, "skills", <<>>)) * 3, 30)
ExpScore(r) == Min(Len(Get(r, "experience", <<>>)) * 7, 35)
EduScore(r) == Min(Len(Get(r, "education", <<>>)) * 10, 20)
ContactScore(r) ==
    (IF Get(r, "email", "") # "" THEN 5 ELSE 0) + (IF Get(r, "phone", "") # "" THEN 5 ELSE 0)
\* mutant: a summary of exactly 50 characters already counts
SummaryScoreAtLeast(r) ==
    LET summary == Get(r, "summary", "")
    IN  IF summary # "" /\ Len(summary) >= 50 THEN 5 ELSE 0

SummaryScore(r) ==
    LET summary == Get(r, "summary", "")
    IN  IF summary # "" /\ Len(summary) > 50 THEN 5 ELSE 0

BaseScore(r) == SkillsScore(r) + ExpScore(r) + EduScore(r) + ContactScore(r) + SummaryScore(r)

\* req_score = (matching_skills / len(job_requirements)) * 20
ReqScore(r, jr) ==
    Rat(MatchingSkills(jr.list, Get(r, "skills", <<>>)) * 20, Len(jr.list))

MaxScore(jr) == IF Truthy(jr) THEN 100 + 20 ELSE 100

\* mutant: the thresholds taken against the base maximum of 100
GradeAgainstBase(score, max_score) ==
    IF RatLe(Rat(80, 1), score) THEN "A"
    ELSE IF RatLe(Rat(60, 1), score) THEN "B"
    ELSE IF RatLe(Rat(40, 1), score) THEN "C"
    ELSE "D"

\* 'A' if score >= max_score * 0.8 else 'B' if >= 0.6 else 'C' if >= 0.4 else 'D'
Grade(score, max_score) ==
    IF RatLe(Rat(max_score * 8, 10), score) THEN "A"
    ELSE IF RatLe(Rat(max_score * 6, 10), score) THEN "B"
    ELSE IF RatLe(Rat(max_score * 4, 10), score) THEN "C"
    ELSE "D"

calculate_resume_score(r, jr) ==
    LET base == BaseScore(r)
        score == IF Truthy(jr)
                 THEN Rat(base * Len(jr.list) + ReqScore(r, jr).num, Len(jr.list))
                 ELSE Rat(base, 1)
        max_score == MaxScore(jr)
    IN  [ score      |-> score,
          max_score  |-> max_score,
          percentage |-> Rat(score.num * 100, score.den * max_score),
          matching   |-> IF Truthy(jr)
                         THEN MatchingSkills(jr.list, Get(r, "skills", <<>>)) ELSE 0,
          job_match  |-> Truthy(jr),
          grade      |-> Grade(score, max_score) ]

-----------------------------------------------------------------------------
(* The scoring harness: inputs drawn in the initial state, one call *)

NoResult == [none |-> TRUE]

RequirementLists ==
    { <<>>,
      << "python" >>,
      << "PYTHON", "rust" >>,
      << "java", "Java", "cobol" >>,
      << "" >>,
      << "rust" >>,
      << "machine", "data", "c++", "pandas", "cobol", "ml", "tensor" >> }

JobRequirementInputs == {NoRequirements} \cup {Requirements(l) : l \in RequirementLists}

SummaryInputs == {"", Repeat("s", 50), Repeat("s", 51)}

FullRecords ==
    { [ name       |-> "Ann",
        email      |-> e,
        phone      |-> p,
        skills     |-> SubSeq(sample_skills, 1, k),
        education  |-> [i \in 1..d |-> "BSc"],
        experience |-> [i \in 1..x |-> "worked"],
        summary    |-> s ] :
        e \in {"", "a@b.co"}, p \in {"", "0123456789"}, k \in 0..MaxSkills,
        d \in 0..MaxEducation, x \in 0..MaxExperience, s \in SummaryInputs }

Restrict(r, keys) == [k \in keys |-> r[k]]

\* records with every field, and records of older documents that lack some
RecordInputs ==
    FullRecords
      \cup {Restrict(r, Fields \ {"skills", "summary"}) : r \in FullRecords}
      \cup {Restrict(r, {"name", "skills"}) : r \in FullRecords}

ScoreInit ==
    /\ resume \in RecordInputs
    /\ job_requirements \in JobRequirementInputs
    /\ score_data = NoResult

Score ==
    /\ score_data = NoResult
    /\ score_data' = calculate_resume_score(resume, job_requirements)
    /\ UNCHANGED <<resume, job_requirements, store_vars, upload_vars, reply, stats_total>>

-----------------------------------------------------------------------------
(* The record store and the uploads directory *)

Requests == 1..MaxUploads

NoFile == [exists |-> FALSE]
NoData == [none |-> TRUE]
NoReply == [op |-> "none"]
NoResponse == [sent |-> FALSE]
NotRunning == 0 - 1

\* str(ObjectId) and ObjectId(str): the string of ObjectId n is << "oid", n >>
\* in the model; a string that starts otherwise raises InvalidId
IdString(n) == << "oid", n >>
IsValidId(s) == s[1] = "oid"
ObjectId(s) == s[2]

PdfAnn ==
    [ pdf   |-> TRUE,
      pages |-> << "Ann Lee\nann.lee@mail.com 9876543210\n\n",
                   "Worked on a Python and SQL project; BSc in Physics, MSc later on.\n\nInternship role\nJob: Java position\n",
                   "  Role A \nPROJECT B\nposition c\n" >>,
      ents  |-> << [label |-> "ORG", text |-> "Physics"], [label |-> "PERSON", text |-> "Ann Lee"] >> ]

PdfBob ==
    [ pdf   |-> TRUE,
      pages |-> << "Bob\nGit and PYTHON developer\n" >>,
      ents  |-> << >> ]

\* two more texts for extract_info: more than five experience lines, and
\* education lines that repeat
PdfCy ==
    [ pdf   |-> TRUE,
      pages |-> << "Cy Roe\n  Role 1 \nrole2\nPROJECT x\nskills: Java, python\n",
                   "worked\njob 5\nposition 6\nInternship 7\n" >>,
      ents  |-> << [label |-> "PERSON", text |-> "Cy Roe"] >> ]

PdfDi ==
    [ pdf   |-> TRUE,
      pages |-> << "Master and Bachelor\n MSc \nHTML CSS\n\nmy EXPERIENCE\n" >>,
      ents  |-> << >> ]

ExtractInputs == { PdfAnn, PdfBob, PdfCy, PdfDi }

NotPdf == [ pdf |-> FALSE, pages |-> << >>, ents |-> << >> ]

NoUpload == [has_file |-> FALSE, filename |-> "", content |-> NotPdf]
Upload(filename, content) == [has_file |-> TRUE, filename |-> filename, content |-> content]

UploadInputs ==
    { NoUpload,
      Upload("", NotPdf),
      Upload("cv.txt", PdfBob),
      Upload("cv.pdf", PdfAnn),
      Upload("cv.pdf", PdfBob),
      Upload("Scan.PDF", NotPdf) }

Filenames == { u.filename : u \in UploadInputs }

EndsWith(s, suffix) ==
    Len(s) >= Len(suffix) /\ SubSeq(s, Len(s) - Len(suffix) + 1, Len(s)) = suffix

\* extract_text_from_pdf, on a file fitz can open
RECURSIVE Concat(_)
Concat(pages) == IF pages = << >> THEN "" ELSE Head(pages) \o Concat(Tail(pages))
extract_text_from_pdf(content) == Concat(content.pages)

Readable(file) == file.exists /\ file.content.pdf

HashSeeds == {0, 1}

\* extract_info of every file content a request can carry, computed once
PdfContents == { u.content : u \in { v \in UploadInputs : v.content.pdf } } \cup ExtractInputs
Extracted ==
    [ c \in PdfContents |->
        [ seed \in HashSeeds |-> extract_info(extract_text_from_pdf(c), c.ents, seed) ] ]

\* the document insert_one stores: the fields of data and the generated _id
Document(id, d) == [k \in DOMAIN d \cup {"_id"} |-> IF k = "_id" THEN id ELSE d[k]]

InitStore ==
    /\ collection = << >>
    /\ next_id = 1

InitUploads ==
    /\ uploads = [f \in Filenames |-> NoFile]
    /\ pc = [r \in Requests |-> "idle"]
    /\ request = [r \in Requests |-> NoUpload]
    /\ data = [r \in Requests |-> NoData]
    /\ result = [r \in Requests |-> 0]
    /\ error = [r \in Requests |-> ""]
    /\ response = [r \in Requests |-> NoResponse]

Respond(r, resp) ==
    /\ response' = [response EXCEPT ![r] = resp]
    /\ pc' = [pc EXCEPT ![r] = "done"]

Failure(status, message) ==
    [sent |-> TRUE, success |-> FALSE, status |-> status, message |-> message]
Success(d) ==
    [sent |-> TRUE, success |-> TRUE, status |-> 200, data |-> d]

\* upload_resume, lines 86-99: the validation, then file.save(file_path);
\* the requests are numbered in the order they arrive
Receive(r, u) ==
    /\ pc[r] = "idle"
    /\ \A q \in 1..(r - 1) : pc[q] # "idle"
    /\ request' = [request EXCEPT ![r] = u]
    /\ IF ~u.has_file
       THEN Respond(r, Failure(400, "No file uploaded")) /\ UNCHANGED uploads
       ELSE IF u.filename = ""
       THEN Respond(r, Failure(400, "No file selected")) /\ UNCHANGED uploads
       ELSE IF ~EndsWith(Lower(u.filename), ".pdf")
       THEN Respond(r, Failure(400, "Only PDF files are allowed")) /\ UNCHANGED uploads
       ELSE /\ uploads' = [uploads EXCEPT ![u.filename] =
                              [exists |-> TRUE, content |-> u.content, writer |-> r]]
            /\ pc' = [pc EXCEPT ![r] = "staged"]
            /\ UNCHANGED response
    /\ UNCHANGED <<score_vars, store_vars, hash_seed, data, result, error, reply, stats_total>>

\* lines 103-104: the text of the file now at file_path, and extract_info of it
Extract(r) ==
    /\ pc[r] = "staged"
    /\ LET file == uploads[request[r].filename]
       IN  IF Readable(file)
           THEN /\ data' = [data EXCEPT ![r] = Extracted[file.content][hash_seed]]
                /\ pc' = [pc EXCEPT ![r] = "extracted"]
                /\ UNCHANGED error
           ELSE /\ error' = [error EXCEPT ![r] =
                      IF file.exists THEN "FileDataError" ELSE "FileNotFoundError"]
                /\ pc' = [pc EXCEPT ![r] = "except"]
                /\ UNCHANGED data
    /\ UNCHANGED <<score_vars, store_vars, uploads, hash_seed, request, result, response, reply, stats_total>>

\* lines 107-108: collection.insert_one(data); the store may fail instead
Insert(r, store_ok) ==
    /\ pc[r] = "extracted"
    /\ IF store_ok
       THEN /\ collection' = Append(collection, Document(next_id, data[r]))
            /\ next_id' = next_id + 1
            /\ result' = [result EXCEPT ![r] = next_id]
            /\ data' = [data EXCEPT ![r] = Document(IdString(next_id), data[r])]
            /\ pc' = [pc EXCEPT ![r] = "inserted"]
            /\ UNCHANGED error
       ELSE /\ error' = [error EXCEPT ![r] = "ServerSelectionTimeoutError"]
            /\ pc' = [pc EXCEPT ![r] = "except"]
            /\ UNCHANGED <<store_vars, result, data>>
    /\ UNCHANGED <<score_vars, uploads, hash_seed, request, response, reply, stats_total>>

\* lines 111-113: os.remove(file_path), which raises when the file is gone,
\* then the success response
Remove(r) ==
    /\ pc[r] = "inserted"
    /\ IF uploads[request[r].filename].exists
       THEN /\ uploads' = [uploads EXCEPT ![request[r].filename] = NoFile]
            /\ Respond(r, Success(data[r]))
            /\ UNCHANGED error
       ELSE /\ error' = [error EXCEPT ![r] = "FileNotFoundError"]
            /\ pc' = [pc EXCEPT ![r] = "except"]
            /\ UNCHANGED <<uploads, response>>
    /\ UNCHANGED <<score_vars, store_vars, hash_seed, request, data, result, reply, stats_total>>

\* mutant: a handler that answers without looking for the staged file
HandlerSkipsCleanup(r) ==
    /\ pc[r] = "except"
    /\ Respond(r, Failure(500, << "Processing error", error[r] >>))
    /\ UNCHANGED <<score_vars, store_vars, uploads, hash_seed, request, data, result, error, reply, stats_total>>

\* lines 115-119: os.path.exists(file_path) in the handler
HandlerExists(r) ==
    /\ pc[r] = "except"
    /\ IF uploads[request[r].filename].exists
       THEN pc' = [pc EXCEPT ![r] = "cleanup"] /\ UNCHANGED response
       ELSE Respond(r, Failure(500, << "Processing error", error[r] >>))
    /\ UNCHANGED <<score_vars, store_vars, uploads, hash_seed, request, data, result, error, reply, stats_total>>

\* lines 118-122: os.remove(file_path) in the handler; when it raises, the
\* outer handler answers
HandlerRemove(r) ==
    /\ pc[r] = "cleanup"
    /\ IF uploads[request[r].filename].exists
       THEN /\ uploads' = [uploads EXCEPT ![request[r].filename] = NoFile]
            /\ Respond(r, Failure(500, << "Processing error", error[r] >>))
       ELSE /\ Respond(r, Failure(500, << "Upload error", "FileNotFoundError" >>))
            /\ UNCHANGED uploads
    /\ UNCHANGED <<score_vars, store_vars, hash_seed, request, data, result, error, reply, stats_total>>

-----------------------------------------------------------------------------
(* call_tool: what the tools read from the store, and their replies *)

\* what a store operation raises when the store fails, "none" when it works
Faults == {"none", "ConnectionFailure", "ServerSelectionTimeoutError"}

Abs(n) == IF n < 0 THEN 0 - n ELSE n

\* cursor.limit(n): 0 is no limit, a negative limit is its absolute value
CursorLimit(docs, n) == IF n = 0 THEN docs ELSE SubSeq(docs, 1, Min(Abs(n), Len(docs)))

\* l[:n]: a negative n counts from the end
PrefixSlice(l, n) ==
    IF n >= 0 THEN SubSeq(l, 1, Min(n, Len(l)))
    ELSE SubSeq(l, 1, IF Len(l) + n > 0 THEN Len(l) + n ELSE 0)

\* collection.find_one({"_id": id}): the document, or NoDocument
NoDocument == [found |-> FALSE]
find_one(id) ==
    LET hits == { i \in 1..Len(collection) : collection[i]["_id"] = id }
    IN  IF hits = {} THEN NoDocument
        ELSE collection[CHOOSE i \in hits : \A j \in hits : i <= j]

Found(doc) == doc # NoDocument

\* collection.find(query): the matching documents in the store's order
find(Matches(_)) == SelectSeq(collection, Matches)

\* set(l)
SetOf(l) == { l[i] : i \in 1..Len(l) }

\* format_resume_display: the parts of the text
format_resume_display(doc) ==
    LET summary == Get(doc, "summary", "")
    IN  [ name       |-> Get(doc, "name", "Unknown"),
          email      |-> Get(doc, "email", "N/A"),
          phone      |-> Get(doc, "phone", "N/A"),
          id         |-> Get(doc, "_id", "N/A"),
          skills     |-> Get(doc, "skills", << >>),
          experience |-> Get(doc, "experience", << >>),
          education  |-> Get(doc, "education", << >>),
          summary    |-> SubSeq(summary, 1, Min(200, Len(summary))),
          ellipsis   |-> Len(summary) > 200 ]

\* the reply of the outer handlers of call_tool (lines 625-630):
\* ServerSelectionTimeoutError is a ConnectionFailure, so the first clause answers
OuterHandler(op, exception) ==
    IF exception \in {"ConnectionFailure", "ServerSelectionTimeoutError"}
    THEN [op |-> op, kind |-> "error", text |-> << "Failed to connect to MongoDB. Please check your connection." >>]
    ELSE [op |-> op, kind |-> "error", text |-> << "Error", exception >>]

\* list.sort(key=..., reverse=True) on rows with a rational key: stable
RECURSIVE SortDesc(_)
SortDesc(rows) ==
    IF rows = << >> THEN << >>
    ELSE LET init == SortDesc(SubSeq(rows, 1, Len(rows) - 1))
             x    == rows[Len(rows)]
             pos  == Cardinality({ i \in 1..Len(init) : RatLe(x.key, init[i].key) })
         IN  SubSeq(init, 1, pos) \o << x >> \o SubSeq(init, pos + 1, Len(init))

\* get_all_resumes (lines 300-315)
GetAllResumes(limit, fault) ==
    LET resumes == CursorLimit(collection, limit)
    IN  IF fault # "none" THEN OuterHandler("get_all_resumes", fault)
        ELSE IF resumes = << >> THEN [op |-> "get_all_resumes", kind |-> "empty"]
        ELSE [ op   |-> "get_all_resumes",
               kind |-> "ok",
               rows |-> [ i \in 1..Len(resumes) |->
                            [ name       |-> Get(resumes[i], "name", "Unknown"),
                              email      |-> Get(resumes[i], "email", "N/A"),
                              skills     |-> Len(Get(resumes[i], "skills", << >>)),
                              experience |-> Len(Get(resumes[i], "experience", << >>)),
                              id         |-> resumes[i]["_id"] ] ] ]

\* get_resume_by_id (lines 317-330): the inner handler answers every exception
GetResumeById(resume_id, fault) ==
    IF ~IsValidId(resume_id) \/ fault # "none"
    THEN [op |-> "get_resume_by_id", kind |-> "invalid_id", resume_id |-> resume_id]
    ELSE LET doc == find_one(ObjectId(resume_id))
         IN  IF ~Found(doc)
             THEN [op |-> "get_resume_by_id", kind |-> "not_found", resume_id |-> resume_id]
             ELSE [op |-> "get_resume_by_id", kind |-> "ok", display |-> format_resume_display(doc)]

\* re.compile(pattern, re.IGNORECASE) for the patterns of the model: letters,
\* digits and blanks, which match themselves, and "(", which opens a group
\* that is never closed and raises re.error
RegexCompiles(pattern) == ~Contains("(", pattern)
\* $regex on a string, for a pattern that compiles: an unanchored search, ignoring case
RegexSearch(pattern, str) == Contains(Lower(pattern), Lower(str))

\* search_by_skill (lines 332-351)
SearchBySkill(skill, limit, fault) ==
    LET Matches(doc) ==
            \E i \in 1..Len(Get(doc, "skills", << >>)) : RegexSearch(skill, doc["skills"][i])
        resumes == CursorLimit(find(Matches), limit)
        MatchingOf(doc) ==
            LET Hit(sk) == Contains(Lower(skill), Lower(sk))
            IN  SelectSeq(Get(doc, "skills", << >>), Hit)
    IN  IF ~RegexCompiles(skill) THEN OuterHandler("search_by_skill", "re.error")
        ELSE IF fault # "none" THEN OuterHandler("search_by_skill", fault)
        ELSE IF resumes = << >>
        THEN [op |-> "search_by_skill", kind |-> "empty", skill |-> skill]
        ELSE [ op   |-> "search_by_skill",
               kind |-> "ok",
               rows |-> [ i \in 1..Len(resumes) |->
                            [ name     |-> Get(resumes[i], "name", "Unknown"),
                              email    |-> Get(resumes[i], "email", "N/A"),
                              matching |-> MatchingOf(resumes[i]),
                              id       |-> resumes[i]["_id"] ] ] ]

\* search_by_name (lines 353-371)
SearchByName(name, exact, fault) ==
    LET Matches(doc) ==
            /\ "name" \in DOMAIN doc
            /\ IF exact THEN doc["name"] = name ELSE RegexSearch(name, doc["name"])
        resumes == find(Matches)
    IN  IF ~exact /\ ~RegexCompiles(name) THEN OuterHandler("search_by_name", "re.error")
        ELSE IF fault # "none" THEN OuterHandler("search_by_name", fault)
        ELSE IF resumes = << >>
        THEN [op |-> "search_by_name", kind |-> "empty", name |-> name]
        ELSE [ op   |-> "search_by_name",
               kind |-> "ok",
               rows |-> [ i \in 1..Len(resumes) |-> format_resume_display(resumes[i]) ] ]

\* the documents' skills, one entry per document and array element ($unwind)
RECURSIVE Unwound(_)
Unwound(docs) ==
    IF docs = << >> THEN << >> ELSE Get(Head(docs), "skills", << >>) \o Unwound(Tail(docs))

SkillCount(skill) ==
    Cardinality({ i \in 1..Len(Unwound(collection)) : Unwound(collection)[i] = skill })

\* the orders $sort {count: -1} may return the groups in: the order of groups
\* with equal counts is not defined
SortedSkillOrders ==
    LET skills == SetOf(Unwound(collection))
        n == Cardinality(skills)
    IN  { o \in [1..n -> skills] :
            /\ \A i, j \in 1..n : i # j => o[i] # o[j]
            /\ \A i \in 1..(n - 1) : SkillCount(o[i]) >= SkillCount(o[i + 1]) }

\* analyze_skills_distribution (lines 373-398), for one order of the groups;
\* $limit rejects a top_n that is not positive
AnalyzeSkillsDistribution(top_n, order, fault) ==
    LET skills_data == SubSeq(order, 1, Min(top_n, Len(order)))
        total_resumes == Len(collection)
    IN  IF fault # "none" THEN OuterHandler("analyze_skills_distribution", fault)
        ELSE IF top_n <= 0 THEN OuterHandler("analyze_skills_distribution", "OperationFailure")
        ELSE IF skills_data = << >>
        THEN [op |-> "analyze_skills_distribution", kind |-> "empty"]
        ELSE [ op    |-> "analyze_skills_distribution",
               kind  |-> "ok",
               total |-> total_resumes,
               rows  |-> [ i \in 1..Len(skills_data) |->
                             [ skill      |-> skills_data[i],
                               count      |-> SkillCount(skills_data[i]),
                               percentage |-> Rat(SkillCount(skills_data[i]) * 100, total_resumes) ] ] ]

\* analyze_experience_level (lines 105-114)
\* mutant: five positions already count as senior
AnalyzeExperienceBelowFive(experience) ==
    IF experience = << >> THEN "entry"
    ELSE IF Len(experience) <= 2 THEN "entry"
    ELSE IF Len(experience) < 5 THEN "mid"
    ELSE "senior"

analyze_experience_level(experience) ==
    IF experience = << >> THEN "entry"
    ELSE IF Len(experience) <= 2 THEN "entry"
    ELSE IF Len(experience) <= 5 THEN "mid"
    ELSE "senior"

\* get_experience_analysis (lines 400-428)
GetExperienceAnalysis(fault) ==
    LET resumes == collection
        LevelOf(i) == analyze_experience_level(Get(resumes[i], "experience", << >>))
        CountOf(level) == Cardinality({ i \in 1..Len(resumes) : LevelOf(i) = level })
        details == [ i \in 1..Len(resumes) |->
                       [ name             |-> Get(resumes[i], "name", "Unknown"),
                         level            |-> LevelOf(i),
                         experience_count |-> Len(Get(resumes[i], "experience", << >>)),
                         key              |-> Rat(Len(Get(resumes[i], "experience", << >>)), 1) ] ]
    IN  IF fault # "none" THEN OuterHandler("get_experience_analysis", fault)
        ELSE IF resumes = << >> THEN [op |-> "get_experience_analysis", kind |-> "empty"]
        ELSE [ op      |-> "get_experience_analysis",
               kind    |-> "ok",
               total   |-> Len(resumes),
               entry   |-> CountOf("entry"),
               mid     |-> CountOf("mid"),
               senior  |-> CountOf("senior"),
               details |-> SortDesc(details) ]

\* calculate_resume_score, the tool (lines 430-456); job_requirements
\* defaults to []
CalculateResumeScore(resume_id, requirements, fault) ==
    IF ~IsValidId(resume_id)
    THEN [op |-> "calculate_resume_score", kind |-> "error", text |-> << "Error processing resume", "InvalidId" >>]
    ELSE IF fault # "none"
    THEN [op |-> "calculate_resume_score", kind |-> "error", text |-> << "Error processing resume", fault >>]
    ELSE LET doc == find_one(ObjectId(resume_id))
         IN  IF ~Found(doc)
             THEN [op |-> "calculate_resume_score", kind |-> "not_found", resume_id |-> resume_id]
             ELSE [ op           |-> "calculate_resume_score",
                    kind         |-> "ok",
                    name         |-> Get(doc, "name", "Unknown"),
                    score_data   |-> calculate_resume_score(doc, Requirements(requirements)),
                    requirements |-> requirements ]

\* mutant: the first candidate wins unless the second is strictly ahead
WinnerFirstUnlessBehind(percentage1, percentage2) ==
    IF RatLe(percentage2, percentage1) THEN 1 ELSE 2

\* lines 487-492: 1 or 2 for the winner, 0 for "Tie!"
Winner(percentage1, percentage2) ==
    IF RatLt(percentage2, percentage1) THEN 1
    ELSE IF RatLt(percentage1, percentage2) THEN 2
    ELSE 0

\* compare_resumes (lines 458-510)
CompareResumes(resume_id1, resume_id2, fault) ==
    IF ~IsValidId(resume_id1) \/ ~IsValidId(resume_id2)
    THEN [op |-> "compare_resumes", kind |-> "error", text |-> << "Error comparing resumes", "InvalidId" >>]
    ELSE IF fault # "none"
    THEN [op |-> "compare_resumes", kind |-> "error", text |-> << "Error comparing resumes", fault >>]
    ELSE LET resume1 == find_one(ObjectId(resume_id1))
             resume2 == find_one(ObjectId(resume_id2))
             score1 == calculate_resume_score(resume1, NoRequirements)
             score2 == calculate_resume_score(resume2, NoRequirements)
         IN  IF ~Found(resume1)
             THEN [op |-> "compare_resumes", kind |-> "not_found", which |-> 1, resume_id |-> resume_id1]
             ELSE IF ~Found(resume2)
             THEN [op |-> "compare_resumes", kind |-> "not_found", which |-> 2, resume_id |-> resume_id2]
             ELSE [ op     |-> "compare_resumes",
                    kind   |-> "ok",
                    score1 |-> score1,
                    score2 |-> score2,
                    name1  |-> Get(resume1, "name", "Unknown"),
                    name2  |-> Get(resume2, "name", "Unknown"),
                    winner |-> Winner(score1.percentage, score2.percentage),
                    common_skills |-> SetOf(Get(resume1, "skills", << >>))
                                        \cap SetOf(Get(resume2, "skills", << >>)) ]

\* mutant: the overlap measured against the reference's skills alone
SimilarityOverReference(reference_skills, resume_skills) ==
    Rat(Cardinality(reference_skills \cap resume_skills), Cardinality(reference_skills))

\* the similarity of lines 535-536: |common| / |union|
SimilarityScore(reference_skills, resume_skills) ==
    Rat(Cardinality(reference_skills \cap resume_skills),
        Cardinality(reference_skills \cup resume_skills))

\* lines 529-543: the other documents that have skills and a positive score
Similarities(object_id, reference_skills) ==
    LET Other(doc) == doc["_id"] # object_id
        all_resumes == find(Other)
        Similar(doc) ==
            LET resume_skills == SetOf(Get(doc, "skills", << >>))
            IN  /\ resume_skills # {}
                /\ RatLt(Rat(0, 1), SimilarityScore(reference_skills, resume_skills))
        kept == SelectSeq(all_resumes, Similar)
    IN  [ i \in 1..Len(kept) |->
            [ resume        |-> kept[i],
              key           |-> SimilarityScore(reference_skills, SetOf(Get(kept[i], "skills", << >>))),
              common_skills |-> reference_skills \cap SetOf(Get(kept[i], "skills", << >>)) ] ]

\* line 536 divides by zero when a compared document and the reference have
\* no skill between them
DividesByZero(object_id, reference_skills) ==
    \E i \in 1..Len(collection) :
        /\ collection[i]["_id"] # object_id
        /\ SetOf(Get(collection[i], "skills", << >>)) # {}
        /\ SimilarityScore(reference_skills, SetOf(Get(collection[i], "skills", << >>))).den = 0

\* find_similar_resumes (lines 512-568)
FindSimilarResumes(resume_id, limit, fault) ==
    IF ~IsValidId(resume_id)
    THEN [op |-> "find_similar_resumes", kind |-> "error", text |-> << "Error finding similar resumes", "InvalidId" >>]
    ELSE IF fault # "none"
    THEN [op |-> "find_similar_resumes", kind |-> "error", text |-> << "Error finding similar resumes", fault >>]
    ELSE LET object_id == ObjectId(resume_id)
             reference_resume == find_one(object_id)
             reference_skills == SetOf(Get(reference_resume, "skills", << >>))
             similarities == PrefixSlice(SortDesc(Similarities(object_id, reference_skills)), limit)
         IN  IF ~Found(reference_resume)
             THEN [op |-> "find_similar_resumes", kind |-> "not_found", resume_id |-> resume_id]
             ELSE IF reference_skills = {}
             THEN [op |-> "find_similar_resumes", kind |-> "no_skills"]
             ELSE IF DividesByZero(object_id, reference_skills)
             THEN [op |-> "find_similar_resumes", kind |-> "error",
                   text |-> << "Error finding similar resumes", "ZeroDivisionError" >>]
             ELSE IF similarities = << >>
             THEN [op |-> "find_similar_resumes", kind |-> "empty"]
             ELSE [ op        |-> "find_similar_resumes",
                    kind      |-> "ok",
                    reference |-> object_id,
                    limit     |-> limit,
                    rows      |-> [ i \in 1..Len(similarities) |->
                                      [ id     |-> similarities[i].resume["_id"],
                                        name   |-> Get(similarities[i].resume, "name", "Unknown"),
                                        email  |-> Get(similarities[i].resume, "email", "N/A"),
                                        score  |-> similarities[i].key,
                                        common |-> similarities[i].common_skills ] ] ]

\* count_documents({field: {"$exists": True, "$ne": empty}})
CountWith(field, empty) ==
    Cardinality({ i \in 1..Len(collection) :
                    field \in DOMAIN collection[i] /\ collection[i][field] # empty })

RECURSIVE SumSizes(_, _)
SumSizes(docs, field) ==
    IF docs = << >> THEN 0
    ELSE Len(Get(Head(docs), field, << >>)) + SumSizes(Tail(docs), field)

\* get_database_stats, from the completeness counts on (lines 577-620), with the
\* total_resumes read before
DatabaseStats(total_resumes, fault) ==
    IF fault # "none" THEN OuterHandler("get_database_stats", fault)
    ELSE IF total_resumes = 0 THEN OuterHandler("get_database_stats", "ZeroDivisionError")
    ELSE [ op    |-> "get_database_stats",
           kind  |-> "ok",
           total_resumes           |-> total_resumes,
           resumes_with_skills     |-> CountWith("skills", << >>),
           resumes_with_experience |-> CountWith("experience", << >>),
           resumes_with_education  |-> CountWith("education", << >>),
           resumes_with_email      |-> CountWith("email", ""),
           resumes_with_phone      |-> CountWith("phone", ""),
           averages |-> IF collection = << >> THEN [none |-> TRUE]
                        ELSE [ avg_skills     |-> Rat(SumSizes(collection, "skills"), Len(collection)),
                               avg_experience |-> Rat(SumSizes(collection, "experience"), Len(collection)),
                               avg_education  |-> Rat(SumSizes(collection, "education"), Len(collection)) ] ]

\* view_resumes of app.py (lines 125-134): the documents with _id as a string
ViewResumesReply(fault) ==
    IF fault # "none"
    THEN [op |-> "view_resumes", success |-> FALSE, status |-> 500, message |-> fault]
    ELSE [ op      |-> "view_resumes",
           success |-> TRUE,
           status  |-> 200,
           resumes |-> [ i \in 1..Len(collection) |->
                           [collection[i] EXCEPT !["_id"] = IdString(collection[i]["_id"])] ] ]

-----------------------------------------------------------------------------
(* The read-only operations as actions *)

ToolNames ==
    { "get_all_resumes", "get_resume_by_id", "search_by_skill", "search_by_name",
      "analyze_skills_distribution", "get_experience_analysis", "calculate_resume_score",
      "compare_resumes", "find_similar_resumes", "get_database_stats" }

\* a tool that only reads: its reply is all that changes
Reply(r) ==
    /\ reply' = r
    /\ UNCHANGED <<score_vars, store_vars, upload_vars, stats_total>>

get_all_resumes(limit, fault) == Reply(GetAllResumes(limit, fault))
get_resume_by_id(resume_id, fault) == Reply(GetResumeById(resume_id, fault))
search_by_skill(skill, limit, fault) == Reply(SearchBySkill(skill, limit, fault))
search_by_name(name, exact, fault) == Reply(SearchByName(name, exact, fault))
analyze_skills_distribution(top_n, fault) ==
    \E order \in SortedSkillOrders : Reply(AnalyzeSkillsDistribution(top_n, order, fault))
get_experience_analysis(fault) == Reply(GetExperienceAnalysis(fault))
calculate_resume_score_tool(resume_id, requirements, fault) ==
    Reply(CalculateResumeScore(resume_id, requirements, fault))
compare_resumes(resume_id1, resume_id2, fault) ==
    Reply(CompareResumes(resume_id1, resume_id2, fault))
find_similar_resumes(resume_id, limit, fault) ==
    Reply(FindSimilarResumes(resume_id, limit, fault))
unknown_tool(name) == Reply([op |-> name, kind |-> "unknown_tool"])

\* mutant: the count is not compared with 0 before the ratios are computed
StatsBeginUnguarded(fault) ==
    /\ stats_total = NotRunning
    /\ IF fault # "none"
       THEN reply' = OuterHandler("get_database_stats", fault) /\ UNCHANGED stats_total
       ELSE stats_total' = Len(collection) /\ UNCHANGED reply
    /\ UNCHANGED <<score_vars, store_vars, upload_vars>>

\* get_database_stats, line 571-574: total_resumes = count_documents({})
StatsBegin(fault) ==
    /\ stats_total = NotRunning
    /\ IF fault # "none"
       THEN reply' = OuterHandler("get_database_stats", fault) /\ UNCHANGED stats_total
       ELSE IF Len(collection) = 0
       THEN reply' = [op |-> "get_database_stats", kind |-> "empty"] /\ UNCHANGED stats_total
       ELSE stats_total' = Len(collection) /\ UNCHANGED reply
    /\ UNCHANGED <<score_vars, store_vars, upload_vars>>

\* get_database_stats, lines 577-620: the other reads and the reply
StatsFinish(fault) ==
    /\ stats_total # NotRunning
    /\ reply' = DatabaseStats(stats_total, fault)
    /\ stats_total' = NotRunning
    /\ UNCHANGED <<score_vars, store_vars, upload_vars>>

\* mutant: the listing stores the documents it has read once more
ViewResumesStoring(fault) ==
    /\ reply' = ViewResumesReply(fault)
    /\ collection' = IF fault = "none" THEN collection \o collection ELSE collection
    /\ UNCHANGED <<score_vars, next_id, upload_vars, stats_total>>

view_resumes(fault) == Reply(ViewResumesReply(fault))

\* the reply is sent to the caller
Deliver ==
    /\ reply # NoReply
    /\ reply' = NoReply
    /\ UNCHANGED <<score_vars, store_vars, upload_vars, stats_total>>

-----------------------------------------------------------------------------
(* Specifications *)

ScoreIdle ==
    /\ resume = [name |-> ""]
    /\ job_requirements = NoRequirements
    /\ score_data = NoResult

\* the scoring harness: nothing is stored or uploaded
ScoreNext == Score

ScoreStart ==
    /\ ScoreInit /\ InitStore /\ InitUploads /\ hash_seed = 0
    /\ reply = NoReply /\ stats_total = NotRunning

SpecScore == ScoreStart /\ [][ScoreNext]_vars

BadId == << "bad", 0 >>

\* The uploads and the read-only operations together, on a store that starts
\* empty.  The tools take one or two inputs each here; SpecTools varies them.
\* A reply is read by no operation, so it is sent before the next step is
\* taken: every interleaving of store and file operations remains.
Init ==
    /\ ScoreIdle /\ InitStore /\ InitUploads
    /\ hash_seed = 0
    /\ reply = NoReply /\ stats_total = NotRunning

Quiet == reply = NoReply

Next ==
    \/ \E r \in Requests, u \in UploadInputs : Quiet /\ Receive(r, u)
    \/ \E r \in Requests : Quiet /\ Extract(r)
    \/ \E r \in Requests, store_ok \in BOOLEAN : Quiet /\ Insert(r, store_ok)
    \/ \E r \in Requests : Quiet /\ Remove(r)
    \/ \E r \in Requests : Quiet /\ HandlerExists(r)
    \/ \E r \in Requests : Quiet /\ HandlerRemove(r)
    \/ Quiet /\ get_all_resumes(10, "none")
    \/ \E id \in {IdString(1), BadId} : Quiet /\ get_resume_by_id(id, "none")
    \/ Quiet /\ search_by_skill("python", 5, "none")
    \/ Quiet /\ search_by_name("ann", FALSE, "none")
    \/ Quiet /\ analyze_skills_distribution(1, "none")
    \/ Quiet /\ get_experience_analysis("none")
    \/ Quiet /\ calculate_resume_score_tool(IdString(2), << "sql" >>, "none")
    \/ Quiet /\ compare_resumes(IdString(1), IdString(2), "none")
    \/ Quiet /\ find_similar_resumes(IdString(1), 3, "none")
    \/ \E fault \in Faults : Quiet /\ StatsBegin(fault)
    \/ \E fault \in Faults : Quiet /\ StatsFinish(fault)
    \/ Quiet /\ unknown_tool("delete_resume")
    \/ \E fault \in {"none", "ServerSelectionTimeoutError"} : Quiet /\ view_resumes(fault)
    \/ Deliver

Spec == Init /\ [][Next]_vars

\* The tools alone, on a store that holds a corpus from the start.
MaxCorpus == 3

Person(name, email, phone, skills, positions, education) ==
    [ name       |-> name,
      email      |-> email,
      phone      |-> phone,
      skills     |-> skills,
      education  |-> education,
      experience |-> [i \in 1..positions |-> "worked"],
      summary    |-> "" ]

CorpusRecords ==
    { Person("Eve", "eve@x.io", "", << >>, 0, << >>),
      Person("Al", "al@x.io", "", << "Python" >>, 2, << "BSc" >>),
      Person("Bo", "bo@x.io", "0123456789", << "Python", "Java" >>, 3, << "BSc" >>),
      Person("Cy", "", "0123456789", << "Java", "Python" >>, 6, << >>),
      Person("Di", "di@x.io", "", << "Java", "SQL" >>, 5, << "MSc", "PhD" >>),
      [name |-> "Old", email |-> "old@x.io"] }

Corpora ==
    UNION { { [i \in 1..n |-> Document(i, c[i])] : c \in [1..n -> CorpusRecords] } : n \in 0..MaxCorpus }

ToolsInit ==
    /\ ScoreIdle /\ InitUploads /\ hash_seed = 0
    /\ collection \in Corpora
    /\ next_id = Len(collection) + 1
    /\ reply = NoReply /\ stats_total = NotRunning

IdInputs == { IdString(n) : n \in 1..(MaxCorpus + 1) } \cup { BadId }
LimitInputs == { 0 - 1, 0, 1, 3 }

ToolsNext ==
    \/ \E limit \in {1, 10}, fault \in Faults : Quiet /\ get_all_resumes(limit, fault)
    \/ \E id \in IdInputs, fault \in Faults : Quiet /\ get_resume_by_id(id, fault)
    \/ \E skill \in {"PYTHON", "s", "("}, fault \in Faults :
          Quiet /\ search_by_skill(skill, 5, fault)
    \/ \E name \in {"bo", "Bo", "("}, exact \in BOOLEAN, fault \in Faults :
          Quiet /\ search_by_name(name, exact, fault)
    \/ \E top_n \in {0, 2, 10}, fault \in Faults :
          Quiet /\ analyze_skills_distribution(top_n, fault)
    \/ \E fault \in Faults : Quiet /\ get_experience_analysis(fault)
    \/ \E id \in IdInputs, requirements \in {<< >>, << "java", "go" >>}, fault \in Faults :
          Quiet /\ calculate_resume_score_tool(id, requirements, fault)
    \/ \E id1 \in IdInputs, id2 \in IdInputs, fault \in Faults :
          Quiet /\ compare_resumes(id1, id2, fault)
    \/ \E id \in IdInputs, limit \in LimitInputs, fault \in Faults :
          Quiet /\ find_similar_resumes(id, limit, fault)
    \/ \E fault \in Faults : Quiet /\ StatsBegin(fault)
    \/ \E fault \in Faults : Quiet /\ StatsFinish(fault)
    \/ Quiet /\ unknown_tool("delete_resume")
    \/ \E fault \in Faults : Quiet /\ view_resumes(fault)
    \/ Deliver

SpecTools == ToolsInit /\ [][ToolsNext]_vars

\* extract_info alone, called again and again, in processes that are started
\* with either hash seed.
ExtractInit ==
    /\ ScoreIdle /\ InitStore /\ InitUploads
    /\ hash_seed \in HashSeeds
    /\ reply = NoReply /\ stats_total = NotRunning

\* the process is started anew: str hashes are salted afresh
Restart(seed) ==
    /\ hash_seed' = seed
    /\ UNCHANGED <<score_vars, store_vars, uploads, pc, request, data, result, error, response,
                   reply, stats_total>>

\* one call of extract_info on the text of a file; r numbers the calls kept
ExtractInfo(r, content) ==
    /\ request' = [request EXCEPT ![r] = Upload("cv.pdf", content)]
    /\ data' = [data EXCEPT ![r] = Extracted[content][hash_seed]]
    /\ UNCHANGED <<score_vars, store_vars, uploads, hash_seed, pc, result, error, response,
                   reply, stats_total>>

ExtractNext ==
    \/ \E seed \in HashSeeds : Restart(seed)
    \/ \E r \in Requests, content \in ExtractInputs : ExtractInfo(r, content)

SpecExtract == ExtractInit /\ [][ExtractNext]_vars

-----------------------------------------------------------------------------
(* Claims about calculate_resume_score, checked under SpecScore *)

Scored == score_data # NoResult
Zero == Rat(0, 1)
Whole(n) == Rat(n, 1)

\* C1: every result of calculate_resume_score has 0 <= score <= max_score,
\* with max_score 100 without requirements (absent or empty list) and 120
\* with a non-empty requirement list.
C1_ScoreWithinMax ==
    Scored =>
        /\ RatLe(Zero, score_data.score)
        /\ RatLe(score_data.score, Whole(score_data.max_score))
        /\ score_data.max_score =
              (IF job_requirements.given /\ Len(job_requirements.list) > 0 THEN 120 ELSE 100)

\* a record beyond every cap, scored against requirements it meets: 120 of 120
C1_Witness ==
    /\ Scored
    /\ Len(Get(resume, "skills", <<>>)) > 10
    /\ Len(Get(resume, "experience", <<>>)) > 5
    /\ Len(Get(resume, "education", <<>>)) > 2
    /\ score_data.max_score = 120
    /\ RatEq(score_data.score, Whole(120))

GradeRank(g) == CASE g = "A" -> 4 [] g = "B" -> 3 [] g = "C" -> 2 [] g = "D" -> 1

\* the grade the claim derives from a percentage
GradeOfPercentage(p) ==
    IF RatLe(Whole(80), p) THEN "A"
    ELSE IF RatLe(Whole(60), p) THEN "B"
    ELSE IF RatLe(Whole(40), p) THEN "C"
    ELSE "D"

ReferenceRecords ==
    { r \in FullRecords :
        /\ r.email = r.phone
        /\ Len(r.skills) \in {0, 4, 8, MaxSkills}
        /\ Len(r.education) \in {0, 2}
        /\ r.summary = "" }

ReferenceResults ==
    { calculate_resume_score(r, jr) :
        r \in ReferenceRecords,
        jr \in {NoRequirements, Requirements(<< "PYTHON", "rust" >>),
                Requirements(<< "java", "Java", "cobol" >>)} }

\* C2: grade is A exactly when percentage >= 80, B when 60 <= percentage < 80,
\* C when 40 <= percentage < 60 and D otherwise, against max_score 100 and 120
\* alike; of two results the one with the higher percentage never has the
\* worse grade.
C2_GradeByPercentage ==
    Scored =>
        /\ score_data.grade = GradeOfPercentage(score_data.percentage)
        /\ \A o \in ReferenceResults :
              /\ RatLt(o.percentage, score_data.percentage)
                    => GradeRank(o.grade) <= GradeRank(score_data.grade)
              /\ RatLt(score_data.percentage, o.percentage)
                    => GradeRank(score_data.grade) <= GradeRank(o.grade)

\* 72 of 120 is exactly 60 percent: grade B, while 72 of 100 would be B too but
\* 85 of 120 (70.8 percent) must not be A
C2_Witness ==
    /\ Scored
    /\ score_data.max_score = 120
    /\ RatLe(Whole(80), score_data.score)
    /\ RatLt(score_data.score, Whole(96))
    /\ score_data.grade = "B"

Count(field) == IF field \in DOMAIN resume THEN Len(resume[field]) ELSE 0
Text(field) == IF field \in DOMAIN resume THEN resume[field] ELSE ""

\* C3: without requirements the score is min(3*|skills|,30) + min(7*|experience|,35)
\* + min(10*|education|,20) + 5 for an email + 5 for a phone + 5 for a summary
\* longer than 50 characters; a record with at least 10 skills, 5 experience and
\* 2 education entries, email, phone and such a summary scores 100 of 100,
\* percentage 100, grade A.
C3_BaseScoreFormula ==
    (Scored /\ ~job_requirements.given) =>
        /\ score_data.score.den = 1
        /\ score_data.score.num =
              (IF 3 * Count("skills") < 30 THEN 3 * Count("skills") ELSE 30)
            + (IF 7 * Count("experience") < 35 THEN 7 * Count("experience") ELSE 35)
            + (IF 10 * Count("education") < 20 THEN 10 * Count("education") ELSE 20)
            + (IF Len(Text("email")) > 0 THEN 5 ELSE 0)
            + (IF Len(Text("phone")) > 0 THEN 5 ELSE 0)
            + (IF Len(Text("summary")) > 50 THEN 5 ELSE 0)
        /\ ( /\ Count("skills") >= 10 /\ Count("experience") >= 5
             /\ Count("education") >= 2 /\ Len(Text("email")) > 0
             /\ Len(Text("phone")) > 0 /\ Len(Text("summary")) > 50 )
           => /\ score_data.score = Whole(100)
              /\ score_data.max_score = 100
              /\ RatEq(score_data.percentage, Whole(100))
              /\ score_data.grade = "A"

\* the scenario of the specification: 10 skills, 5 experience, 2 education
C3_Witness ==
    /\ Scored
    /\ ~job_requirements.given
    /\ Count("skills") = 10 /\ Count("experience") = 5 /\ Count("education") = 2
    /\ Text("email") # "" /\ Text("phone") # "" /\ Len(Text("summary")) = 51
    /\ score_data.score = Whole(100)

\* the requirements some skill of the record contains, ignoring case
MetRequirements ==
    { i \in 1..Len(job_requirements.list) :
        \E j \in 1..Count("skills") :
            Contains(Lower(job_requirements.list[i]), Lower(resume["skills"][j])) }

\* C4: with a non-empty requirement list each requirement counts at most once,
\* so matches <= |job_requirements|; the bonus is matches/|job_requirements|*20,
\* between 0 and 20, and max_score grows by exactly 20; an empty list gives the
\* result of no list.
C4_RequirementBonus ==
    Scored =>
        LET n == Len(job_requirements.list)
            base == calculate_resume_score(resume, NoRequirements)
            bonus == Rat(score_data.score.num - base.score.num * score_data.score.den,
                         score_data.score.den)
        IN  IF job_requirements.given /\ n > 0
            THEN /\ score_data.job_match
                 /\ score_data.matching = Cardinality(MetRequirements)
                 /\ score_data.matching <= n
                 /\ score_data.score.den > 0
                 /\ RatEq(bonus, Rat(score_data.matching * 20, n))
                 /\ RatLe(Zero, bonus) /\ RatLe(bonus, Whole(20))
                 /\ score_data.max_score = base.max_score + 20
            ELSE score_data = base

\* five of seven requirements met: a bonus of 100/7
C4_Witness ==
    /\ Scored
    /\ Len(job_requirements.list) = 7
    /\ score_data.matching = 5
    /\ Count("skills") = 10

-----------------------------------------------------------------------------
(* Claims about find_similar_resumes, checked under SpecTools *)

SimilarReply == reply.op = "find_similar_resumes" /\ reply.kind = "ok"

\* the stored document with an id, and where the store returns it
DocOf(id) == find_one(id)
PositionOf(id) == CHOOSE i \in 1..Len(collection) : collection[i]["_id"] = id
SkillSetOf(id) == SetOf(Get(DocOf(id), "skills", << >>))

\* the similarity the tool reports for record a when record b is the reference
\* (no row: 0)
ReportedSimilarity(b, a) ==
    LET other == FindSimilarResumes(IdString(b), Len(collection), "none")
        hits  == IF other.kind = "ok"
                 THEN { j \in 1..Len(other.rows) : other.rows[j].id = a } ELSE {}
    IN  IF hits = {} THEN Rat(0, 1) ELSE other.rows[CHOOSE j \in hits : TRUE].score

\* C5: the similarity of b relative to reference a equals that of a relative to
\* reference b, lies in [0,1] and is 1 for equal skill sets; a record without
\* skills is in no ranked list, and no skill set makes the tool fail.
C5_SimilaritySymmetric ==
    /\ \A i, j \in 1..Len(collection) :
          LET a == SetOf(Get(collection[i], "skills", << >>))
              b == SetOf(Get(collection[j], "skills", << >>))
          IN  (a # {} /\ b # {}) =>
                 /\ RatEq(SimilarityScore(a, b), SimilarityScore(b, a))
                 /\ RatLe(Rat(0, 1), SimilarityScore(a, b))
                 /\ RatLe(SimilarityScore(a, b), Rat(1, 1))
                 /\ (a = b) => RatEq(SimilarityScore(a, b), Rat(1, 1))
    /\ SimilarReply =>
          \A i \in 1..Len(reply.rows) :
             LET row == reply.rows[i]
             IN  /\ row.score.den > 0
                 /\ RatLe(Rat(0, 1), row.score) /\ RatLe(row.score, Rat(1, 1))
                 /\ RatEq(row.score, ReportedSimilarity(row.id, reply.reference))
                 /\ SkillSetOf(row.id) # {}
                 /\ (SkillSetOf(row.id) = SkillSetOf(reply.reference)) <=> RatEq(row.score, Rat(1, 1))
    /\ (reply.op = "find_similar_resumes" /\ reply.kind = "error")
          => reply.text[2] \in (Faults \cup {"InvalidId"})

\* a ranked list holding a record with the reference's skill set and a record
\* that shares only part of it
C5_Witness ==
    /\ SimilarReply
    /\ \E i \in 1..Len(reply.rows) : RatLt(reply.rows[i].score, Rat(1, 1))
    /\ \E i \in 1..Len(reply.rows) : RatEq(reply.rows[i].score, Rat(1, 1))

\* C6: the ranked list never holds the reference record, holds only records
\* with similarity > 0, is ordered by non-increasing similarity, has at most
\* limit entries, and keeps records of equal similarity in the store's order.
C6_RankedList ==
    SimilarReply =>
        /\ \A i \in 1..Len(reply.rows) :
              /\ reply.rows[i].id # reply.reference
              /\ RatLt(Rat(0, 1), reply.rows[i].score)
        /\ \A i \in 1..(Len(reply.rows) - 1) :
              /\ RatLe(reply.rows[i + 1].score, reply.rows[i].score)
              /\ RatEq(reply.rows[i + 1].score, reply.rows[i].score)
                    => PositionOf(reply.rows[i].id) < PositionOf(reply.rows[i + 1].id)
        /\ Len(reply.rows) <= reply.limit

-----------------------------------------------------------------------------
(* Claims about upload_resume and the store, checked under Spec *)

\* the request passed the validation of lines 86-94 and saved its file
Staged(r) ==
    /\ request[r].has_file
    /\ request[r].filename # ""
    /\ EndsWith(Lower(request[r].filename), ".pdf")

Answered(r) == pc[r] = "done" /\ response[r].sent

\* the documents a request has inserted
InsertedBy(r) == { i \in 1..Len(collection) : collection[i]["_id"] = result[r] }

\* C7: a request that is answered with a failure has persisted no record.
C7_FailurePersistsNothing ==
    \A r \in Requests :
        (Answered(r) /\ ~response[r].success) => InsertedBy(r) = {}

\* C8: once a request that staged a file is answered, whatever the exit path,
\* the file it wrote is no longer in the uploads directory.
C8_StagedFileRemoved ==
    \A r \in Requests :
        (Answered(r) /\ Staged(r)) =>
            \A f \in Filenames : ~(uploads[f].exists /\ uploads[f].writer = r)

\* requests answered on each exit path after staging: success, extraction
\* failure and store failure
C8_Witness ==
    \E r, q \in Requests :
        /\ Answered(r) /\ Staged(r) /\ response[r].success
        /\ Answered(q) /\ Staged(q) /\ ~response[q].success
        /\ error[q] \in {"FileDataError", "ServerSelectionTimeoutError"}

\* what the request does when no other request runs and the store answers
AloneSucceeds(r) == request[r].content.pdf
AloneRecord(r) == Extracted[request[r].content][hash_seed]

\* C9: an upload that runs together with others, the same filename included,
\* ends as it does alone: the same success or failure, and on success a stored
\* record with the fields extracted from its own file.
C9_UploadsIndependent ==
    \A r \in Requests :
        (Answered(r) /\ Staged(r) /\ error[r] # "ServerSelectionTimeoutError") =>
            IF AloneSucceeds(r)
            THEN /\ response[r].success
                 /\ \A i \in InsertedBy(r) : collection[i] = Document(result[r], AloneRecord(r))
                 /\ InsertedBy(r) # {}
            ELSE /\ ~response[r].success
                 /\ InsertedBy(r) = {}

\* the step is the insert_one of some upload_resume request
IsInsert ==
    \E r \in Requests :
        /\ pc[r] = "extracted" /\ pc'[r] = "inserted"
        /\ collection' = Append(collection, Document(result'[r], data[r]))

\* C10: the ten tools and the /resumes listing leave the store as it is; the
\* store changes only by an upload adding exactly one record, and the ids of
\* the stored records are pairwise distinct.
C10_StoreFrame ==
    [][ /\ (reply' # reply \/ stats_total' # stats_total) => collection' = collection
        /\ collection' # collection => IsInsert
        /\ \A i, j \in 1..Len(collection') :
              collection'[i]["_id"] = collection'[j]["_id"] => i = j ]_vars

\* two stored records, listed by /resumes
C10_Witness ==
    /\ Len(collection) = 2
    /\ reply.op = "view_resumes" /\ reply.success
    /\ Len(reply.resumes) = 2

-----------------------------------------------------------------------------
(* Claims about the outcomes of the tools, checked under SpecTools *)

StoreFaults == Faults \ {"none"}
ValidIds == { id \in IdInputs : IsValidId(id) }

\* the reply names the store failure and is neither the reply to an invalid
\* identifier nor the not-found reply
NamesStoreFailure(r, onInvalid, fault) ==
    /\ r.kind = "error"
    /\ r.text[2] = fault
    /\ r # onInvalid

\* C11: when the store fails during get_resume_by_id, calculate_resume_score,
\* compare_resumes or find_similar_resumes, the outcome names the store
\* failure and differs from the invalid-identifier and the not-found outcome;
\* so an invalid-identifier outcome is only ever given for an invalid identifier.
C11_StoreFailureDistinct ==
    /\ (reply.op = "get_resume_by_id" /\ reply.kind = "invalid_id")
          => ~IsValidId(reply.resume_id)
    /\ \A id \in ValidIds, fault \in StoreFaults :
          /\ NamesStoreFailure(CalculateResumeScore(id, << >>, fault),
                               CalculateResumeScore(BadId, << >>, "none"), fault)
          /\ NamesStoreFailure(CompareResumes(id, id, fault),
                               CompareResumes(BadId, id, "none"), fault)
          /\ NamesStoreFailure(FindSimilarResumes(id, 3, fault),
                               FindSimilarResumes(BadId, 3, "none"), fault)

-----------------------------------------------------------------------------
(* Claims about get_database_stats, checked under Spec *)

StatsReply == reply.op = "get_database_stats"
DivisionError == << "Error", "ZeroDivisionError" >>

\* C12: get_database_stats on a store without records answers that the
\* database is empty, with no counts and no averages, and no reply of the
\* operation is ever a division error.
C12_EmptyStoreStats ==
    StatsReply =>
        /\ reply.kind = "error" => reply.text # DivisionError
        /\ (collection = << >> /\ reply.kind # "error") => reply.kind = "empty"
        /\ reply.kind = "ok" => reply.total_resumes > 0

\* the operation has answered on a store without records
C12_Witness ==
    StatsReply /\ collection = << >> /\ reply.kind = "empty"

\* C12 as stated: on a store without records the result holds counts that are
\* all 0 and averages that are all 0.0.
C12_EmptyStoreZeroCounts ==
    (StatsReply /\ collection = << >> /\ reply.kind # "error") =>
        /\ reply.kind = "ok"
        /\ reply.total_resumes = 0
        /\ reply.resumes_with_skills = 0
        /\ reply.resumes_with_experience = 0
        /\ reply.resumes_with_education = 0
        /\ reply.resumes_with_email = 0
        /\ reply.resumes_with_phone = 0
        /\ RatEq(reply.averages.avg_skills, Rat(0, 1))
        /\ RatEq(reply.averages.avg_experience, Rat(0, 1))
        /\ RatEq(reply.averages.avg_education, Rat(0, 1))

-----------------------------------------------------------------------------
(* Claims about extract_info, checked under SpecExtract *)

Ran(r) == data[r] # NoData

\* C13: two runs of extract_info on the same text with the same entities give
\* the same record, the order of skills and of education included.
C13_ExtractDeterministic ==
    \A r, q \in Requests :
        (Ran(r) /\ Ran(q) /\ request[r].content = request[q].content) => data[r] = data[q]

\* the lines of the text that hold an experience keyword, whatever the case
KeywordLines(text) ==
    LET lines == SplitLines(text)
    IN  { i \in 1..Len(lines) :
            \E k \in 1..Len(experience_keywords) :
                Contains(Lower(experience_keywords[k]), Lower(lines[i])) }

\* the lines of every text, and those with a keyword, computed once
LinesOf == [ c \in PdfContents |-> SplitLines(extract_text_from_pdf(c)) ]
HitsOf == [ c \in PdfContents |-> KeywordLines(extract_text_from_pdf(c)) ]

\* the n-th smallest element of a set of numbers
RECURSIVE Nth(_, _)
Nth(S, n) ==
    LET least == CHOOSE i \in S : \A j \in S : i <= j
    IN  IF n = 1 THEN least ELSE Nth(S \ {least}, n - 1)

\* C14: experience has at most 5 entries: the first five lines of the text
\* that hold an experience keyword in any case (all of them when fewer),
\* trimmed, in the order of the text.
C14_ExperienceFirstFive ==
    \A r \in Requests :
        Ran(r) =>
            LET hits  == HitsOf[request[r].content]
                lines == LinesOf[request[r].content]
                experience == data[r].experience
            IN  /\ Len(experience) <= 5
                /\ Len(experience) = Min(5, Cardinality(hits))
                /\ \A n \in 1..Len(experience) : experience[n] = Strip(lines[Nth(hits, n)])

\* a text with more than five keyword lines, one in capitals and one with
\* blanks around it, and a text with fewer than five
C14_Witness ==
    \E r, q \in Requests :
        /\ Ran(r) /\ Cardinality(HitsOf[request[r].content]) > 5
        /\ Len(data[r].experience) = 5
        /\ data[r].experience[1] = "Role 1" /\ data[r].experience[3] = "PROJECT x"
        /\ Ran(q) /\ Len(data[q].experience) = 1

-----------------------------------------------------------------------------
(* Claims about compare_resumes and get_experience_analysis, checked under
   SpecTools *)

\* what the score of a record depends on: the counts of skills, experience and
\* education, the presence of email and phone, and the presence of a summary
\* that counts (longer than 50 characters)
Profile(doc) ==
    << Len(Get(doc, "skills", << >>)), Len(Get(doc, "experience", << >>)),
       Len(Get(doc, "education", << >>)),
       Get(doc, "email", "") # "", Get(doc, "phone", "") # "",
       Len(Get(doc, "summary", "")) > 50 >>

PercentageOf(doc) == calculate_resume_score(doc, NoRequirements).percentage

\* C15: compare_resumes reports a tie exactly when the two percentages are
\* equal, as they are for two records with equal counts and equal contact and
\* summary presence, and otherwise the winner is the record with the strictly
\* greater percentage.
C15_TieWhenEqual ==
    /\ (reply.op = "compare_resumes" /\ reply.kind = "ok") =>
          /\ reply.winner = 0 <=> RatEq(reply.score1.percentage, reply.score2.percentage)
          /\ reply.winner = 1 <=> RatLt(reply.score2.percentage, reply.score1.percentage)
          /\ reply.winner = 2 <=> RatLt(reply.score1.percentage, reply.score2.percentage)
    /\ \A i, j \in 1..Len(collection) :
          LET r == CompareResumes(IdString(i), IdString(j), "none")
          IN  /\ r.kind = "ok"
              /\ RatEq(r.score1.percentage, PercentageOf(collection[i]))
              /\ RatEq(r.score2.percentage, PercentageOf(collection[j]))
              /\ Profile(collection[i]) = Profile(collection[j]) => r.winner = 0

\* a tie between two different candidates
C15_Witness ==
    /\ reply.op = "compare_resumes" /\ reply.kind = "ok"
    /\ reply.winner = 0
    /\ reply.name1 # reply.name2

\* the level the thresholds give to a number of experience entries
LevelByCount(n) == IF n <= 2 THEN "entry" ELSE IF n <= 5 THEN "mid" ELSE "senior"

ExperienceReply == reply.op = "get_experience_analysis" /\ reply.kind = "ok"

\* C16: analyze_experience_level gives entry to 0, 1 or 2 entries (a missing
\* list included), mid to 3, 4 or 5 and senior to 6 or more, and
\* get_experience_analysis counts every record read in exactly one level: the
\* three counts add up to the number of records.
C16_ExperienceLevels ==
    /\ \A n \in 0..(MaxExperience + 2) :
          analyze_experience_level([i \in 1..n |-> "worked"]) = LevelByCount(n)
    /\ ExperienceReply =>
          /\ reply.total = Len(collection)
          /\ reply.entry + reply.mid + reply.senior = reply.total
          /\ Len(reply.details) = reply.total
          /\ \A d \in 1..Len(reply.details) :
                reply.details[d].level = LevelByCount(reply.details[d].experience_count)
          /\ \A level \in {"entry", "mid", "senior"} :
                reply[level] = Cardinality({ i \in 1..Len(collection) :
                    LevelByCount(Len(Get(collection[i], "experience", << >>))) = level })

\* an analysis with records in all three levels, one of them without an
\* experience field
C16_Witness ==
    /\ ExperienceReply
    /\ reply.entry = 1 /\ reply.mid = 1 /\ reply.senior = 1
    /\ \E i \in 1..Len(collection) : "experience" \notin DOMAIN collection[i]

-----------------------------------------------------------------------------
(* Claims about the store read while uploads run, checked under Spec *)

\* C17: in every result of get_database_stats each completeness count is at
\* most the reported total, so that no ratio exceeds 100%, also when uploads
\* insert records between the reads of the operation.
C17_CountsWithinTotal ==
    (StatsReply /\ reply.kind = "ok") =>
        /\ reply.resumes_with_skills <= reply.total_resumes
        /\ reply.resumes_with_experience <= reply.total_resumes
        /\ reply.resumes_with_education <= reply.total_resumes
        /\ reply.resumes_with_email <= reply.total_resumes
        /\ reply.resumes_with_phone <= reply.total_resumes

\* C18: a record created by an upload is never senior, since extraction keeps
\* at most 5 experience entries: in a store filled by uploads alone the senior
\* count of get_experience_analysis is 0, and the experience component of the
\* score is at its cap of 35 exactly for the records with 5 entries.
C18_UploadsNeverSenior ==
    /\ \A i \in 1..Len(collection) :
          LET experience == Get(collection[i], "experience", << >>)
          IN  /\ analyze_experience_level(experience) \in {"entry", "mid"}
              /\ ExpScore(collection[i]) = 35 <=> Len(experience) = 5
    /\ ExperienceReply => reply.senior = 0

\* the analysis of a store that holds an uploaded record whose text has more
\* than five experience lines, and one with none
C18_Witness ==
    /\ ExperienceReply
    /\ reply.mid = 1 /\ reply.entry = 1
    /\ \E r \in Requests :
          /\ result[r] # 0
          /\ Cardinality(HitsOf[request[r].content]) > 5
          /\ \E i \in InsertedBy(r) : ExpScore(collection[i]) = 35

====
